---- MODULE Spec2Model ----
(***************************************************************************)
(* Model of app.py, the NaCCER proposal evaluation tool: the rubric        *)
(* scorers, the weighted aggregator, and the Streamlit session (login,     *)
(* logout, proposal submission and the three role dashboards).             *)
(*                                                                         *)
(* Scores are fixed-point integers in hundredths of a point (16.67 is      *)
(* 1667).  Cosine similarities are integers in units of 1/100000.  Text is *)
(* a TLA+ string, searched character by character.                         *)
(***************************************************************************)
EXTENDS Integers, Sequences, FiniteSets, TLC

\* logged_in, username, role, proposals: st.session_state (app.py:20-27)
\* request: the widget values of the latest run of the script
\* screen: what the latest run rendered
\* call: a scorer called on its own, with its arguments and its return value
VARIABLES logged_in, username, role, proposals, request, screen, call

vars == <<logged_in, username, role, proposals, request, screen, call>>

session == <<logged_in, username, role>>

(***************************************************************************)
(* Bounds of the model.                                                    *)
(***************************************************************************)
MaxProposals == 2

MaxRows == 2

(***************************************************************************)
(* Python built-ins used by the scorers.                                   *)
(***************************************************************************)
Max(a, b) == IF a >= b THEN a ELSE b

SeqMax(s) == CHOOSE m \in {s[i] : i \in 1..Len(s)} : \A i \in 1..Len(s) : s[i] <= m

RECURSIVE SeqSum(_)
SeqSum(s) == IF s = <<>> THEN 0 ELSE Head(s) + SeqSum(Tail(s))

UpperCase == "ABCDEFGHIJKLMNOPQRSTUVWXYZ"

LowerCase == "abcdefghijklmnopqrstuvwxyz"

\* str.lower() on one character
UpperToLower ==
    [c \in {SubSeq(UpperCase, i, i) : i \in 1..Len(UpperCase)} |->
       LET i == CHOOSE j \in 1..Len(UpperCase) : SubSeq(UpperCase, j, j) = c
       IN  SubSeq(LowerCase, i, i)]

LowerChar(c) == IF c \in DOMAIN UpperToLower THEN UpperToLower[c] ELSE c

\* str.lower(), character by character (the string is split in halves)
RECURSIVE lower(_)
lower(s) ==
    IF Len(s) <= 1 THEN LowerChar(s)
    ELSE LET h == Len(s) \div 2
         IN  lower(SubSeq(s, 1, h)) \o lower(SubSeq(s, h + 1, Len(s)))

\* kw in s: kw occurs in s as a contiguous substring
In(kw, s) ==
    \E i \in 1..(Len(s) - Len(kw) + 1) : SubSeq(s, i, i + Len(kw) - 1) = kw

Whitespace == {" ", "\n", "\t"}

\* str.strip(): leading and trailing whitespace removed
RECURSIVE lstrip(_)
lstrip(s) ==
    IF Len(s) > 0 /\ SubSeq(s, 1, 1) \in Whitespace
    THEN lstrip(SubSeq(s, 2, Len(s)))
    ELSE s

RECURSIVE rstrip(_)
rstrip(s) ==
    IF Len(s) > 0 /\ SubSeq(s, Len(s), Len(s)) \in Whitespace
    THEN rstrip(SubSeq(s, 1, Len(s) - 1))
    ELSE s

strip(s) == rstrip(lstrip(s))

\* round(x, 2) of the float computed for the exact value num/den hundredths.
\* Away from a tie the float error is far below half a hundredth, so the
\* nearest hundredth is returned; at an exact decimal tie the float may sit
\* on either side, so both neighbours are possible results.
round2(num, den) ==
    LET q == num \div den
        r == num % den
    IN  IF 2 * r < den THEN {q}
        ELSE IF 2 * r > den THEN {q + 1}
        ELSE {q, q + 1}

(***************************************************************************)
(* The rubric scorers.                                                     *)
(***************************************************************************)
\* sum(kw in text.lower() for kw in keywords)
RECURSIVE matches(_, _)
matches(keywords, low) ==
    IF keywords = <<>> THEN 0
    ELSE (IF In(Head(keywords), low) THEN 1 ELSE 0) + matches(Tail(keywords), low)

\* Mutant: the keywords are searched in the text as written, not lower-cased
coverage_case_sensitive(keywords, text) ==
    round2(100 * 100 * matches(keywords, text), Len(keywords))

\* round(100 * sum(...) / len(keywords), 2)
coverage(keywords, text) ==
    round2(100 * 100 * matches(keywords, lower(text)), Len(keywords))

min_score_default == 1000

min_score(val) == Max(val, min_score_default)

relevance_keywords ==
    <<"coal mining", "safety", "environmental sustainability",
      "energy efficiency", "automation", "clean coal">>

score_relevance(text) == {min_score(val) : val \in coverage(relevance_keywords, text)}

\* Mutant: the similarity to the first benchmark instead of the maximum
score_novelty_first_benchmark(sims) ==
    {min_score(val) : val \in round2((100000 - sims[1]) * 100 * 100, 100000)}

\* 100 * (1 - np.max(sims)), rounded, for similarities in units of 1/100000
score_novelty(sims) ==
    {min_score(val) : val \in round2((100000 - SeqMax(sims)) * 100 * 100, 100000)}

feasibility_keys ==
    <<"objective", "methodology", "timeline", "resources", "expertise", "partnership">>

score_technical_feasibility(text) ==
    {min_score(val) : val \in coverage(feasibility_keys, text)}

max_total == 2000000

CapIssue == "Budget exceeds max INR 20 lakhs"

MilestoneIssue == "First milestone > 40% of total budget"

\* Mutant: a first milestone of exactly 40% is flagged too
score_financial_viability_at_limit(Amount) ==
    LET total == SeqSum(Amount)
        first_milestone == IF Amount # <<>> THEN Amount[1] ELSE 0
        issues1 == IF total > max_total THEN <<CapIssue>> ELSE <<>>
        issues == IF total > 0 /\ 10 * first_milestone >= 4 * total
                  THEN Append(issues1, MilestoneIssue) ELSE issues1
        score == IF issues = <<>> THEN 100 * 100 ELSE 50 * 100
    IN  <<min_score(score), issues>>

\* budget_df["Amount"] is the sequence of the rows' amounts.
\* first_milestone / total > 0.4 is compared exactly: 10 * first > 4 * total.
score_financial_viability(Amount) ==
    LET total == SeqSum(Amount)
        first_milestone == IF Amount # <<>> THEN Amount[1] ELSE 0
        issues1 == IF total > max_total THEN <<CapIssue>> ELSE <<>>
        issues == IF total > 0 /\ 10 * first_milestone > 4 * total
                  THEN Append(issues1, MilestoneIssue) ELSE issues1
        score == IF issues = <<>> THEN 100 * 100 ELSE 50 * 100
    IN  <<min_score(score), issues>>

impact_keys == <<"efficiency", "safety", "environment", "emissions", "clean energy">>

score_impact_potential(text) == {min_score(val) : val \in coverage(impact_keys, text)}

institutional_keys == <<"track record", "expertise", "facility", "experience">>

score_institutional_capability(text) ==
    {min_score(val) : val \in coverage(institutional_keys, text)}

compliance_keys ==
    <<"forms", "annexures", "financial details", "approval", "ethical", "regulatory">>

score_compliance_and_completeness(text) ==
    {min_score(val) : val \in coverage(compliance_keys, text)}

\* Mutant: the thresholds are open (score > 70, score > 50)
score_record_open_thresholds(r1, r2, r3, r4, r5, r6, r7, score, fin_issues) ==
    LET status == IF score > 70 * 100 THEN "Accepted"
                  ELSE IF score > 50 * 100
                       THEN "Conditional Acceptance (Revision Needed)"
                       ELSE "Rejected"
        reasons == IF score > 70 * 100 THEN <<>>
                   ELSE IF score > 50 * 100
                        THEN (IF fin_issues # <<>> THEN fin_issues
                              ELSE <<"Requires revision">>)
                        ELSE (IF fin_issues # <<>> THEN fin_issues
                              ELSE <<"Score below threshold">>)
    IN  [Relevance |-> r1, Novelty |-> r2, TechnicalFeasibility |-> r3,
         FinancialViability |-> r4, Impact |-> r5,
         InstitutionalCapability |-> r6, Compliance |-> r7,
         OverallScore |-> score, Status |-> status, Reasons |-> reasons]

\* Mutant: a rejected proposal always gets the generic reason
score_record_generic_rejection(r1, r2, r3, r4, r5, r6, r7, score, fin_issues) ==
    LET status == IF score >= 70 * 100 THEN "Accepted"
                  ELSE IF score >= 50 * 100
                       THEN "Conditional Acceptance (Revision Needed)"
                       ELSE "Rejected"
        reasons == IF score >= 70 * 100 THEN <<>>
                   ELSE IF score >= 50 * 100
                        THEN (IF fin_issues # <<>> THEN fin_issues
                              ELSE <<"Requires revision">>)
                        ELSE <<"Score below threshold">>
    IN  [Relevance |-> r1, Novelty |-> r2, TechnicalFeasibility |-> r3,
         FinancialViability |-> r4, Impact |-> r5,
         InstitutionalCapability |-> r6, Compliance |-> r7,
         OverallScore |-> score, Status |-> status, Reasons |-> reasons]

\* The status and reasons derived from the overall score, and the record returned.
score_record(r1, r2, r3, r4, r5, r6, r7, score, fin_issues) ==
    LET status == IF score >= 70 * 100 THEN "Accepted"
                  ELSE IF score >= 50 * 100
                       THEN "Conditional Acceptance (Revision Needed)"
                       ELSE "Rejected"
        reasons == IF score >= 70 * 100 THEN <<>>
                   ELSE IF score >= 50 * 100
                        THEN (IF fin_issues # <<>> THEN fin_issues
                              ELSE <<"Requires revision">>)
                        ELSE (IF fin_issues # <<>> THEN fin_issues
                              ELSE <<"Score below threshold">>)
    IN  [Relevance |-> r1, Novelty |-> r2, TechnicalFeasibility |-> r3,
         FinancialViability |-> r4, Impact |-> r5,
         InstitutionalCapability |-> r6, Compliance |-> r7,
         OverallScore |-> score, Status |-> status, Reasons |-> reasons]

\* Every score record the float arithmetic can return for one text, one
\* similarity vector (the TF-IDF cosine similarities to the benchmarks) and
\* one budget table.
compute_weighted_score(text, sims, Amount) ==
    LET fin == score_financial_viability(Amount)
        r4 == fin[1]
        fin_issues == fin[2]
    IN  UNION { { score_record(r[1], r[2], r[3], r4, r[4], r[5], r[6], score, fin_issues) :
                    score \in round2(20 * r[1] + 20 * r[2] + 20 * r[3] + 15 * r4
                                     + 15 * r[4] + 5 * r[5] + 5 * r[6], 100) } :
                r \in score_relevance(text) \X score_novelty(sims)
                      \X score_technical_feasibility(text)
                      \X score_impact_potential(text)
                      \X score_institutional_capability(text)
                      \X score_compliance_and_completeness(text) }

(***************************************************************************)
(* Inputs of the scorers.                                                  *)
(***************************************************************************)
Phrases ==
    <<"Coal Mining ", "SAFETY ", "Environmental Sustainability ",
      "energy efficiency ", "Automation ", "clean coal ",
      "Objective ", "methodology ", "TIMELINE ", "resources ", "Expertise ",
      "partnership ", "emissions ", "Clean Energy ",
      "track record ", "facility ", "Experience ",
      "forms ", "annexures ", "Financial Details ", "approval ", "ethical ",
      "REGULATORY">>

\* The first k phrases, concatenated
RECURSIVE Prefix(_)
Prefix(k) == IF k = 0 THEN "" ELSE Prefix(k - 1) \o Phrases[k]

Texts == {Prefix(k) : k \in 0..Len(Phrases)} \cup {" \n "}

AggTexts == {Prefix(0), Prefix(3), Prefix(9), Prefix(Len(Phrases))}

\* Cosine similarities in units of 1/100000
SimValues == {0, 25000, 25005, 25050, 87500, 87550, 95000, 100000}

SimVectors == SimValues \X SimValues \X SimValues

AggSimVectors == {<<s, 0, s>> : s \in SimValues}

Amounts == {0, 40, 60, 1999960, 2000000}

\* Budget tables: the Amount column, at most MaxRows rows
Budgets == UNION {[1..n -> Amounts] : n \in 0..MaxRows}

(***************************************************************************)
(* The scorers called on their own: one call, from its arguments to its    *)
(* result.                                                                 *)
(***************************************************************************)
NoScores ==
    [Relevance |-> 0, Novelty |-> 0, TechnicalFeasibility |-> 0,
     FinancialViability |-> 0, Impact |-> 0, InstitutionalCapability |-> 0,
     Compliance |-> 0, OverallScore |-> 0, Status |-> "", Reasons |-> <<>>]

NewCall(fn, text, sims, Amount) ==
    [fn |-> fn, text |-> text, sims |-> sims, Amount |-> Amount, pc |-> "called",
     score |-> 0, issues |-> <<>>, scores |-> NoScores]

NoCall == [NewCall("", "", <<0, 0, 0>>, <<>>) EXCEPT !.pc = "idle"]

KeywordScorers ==
    {"score_relevance", "score_technical_feasibility", "score_impact_potential",
     "score_institutional_capability", "score_compliance_and_completeness"}

Calls ==
    {NewCall(fn, t, <<0, 0, 0>>, <<>>) : fn \in KeywordScorers, t \in Texts}
    \cup {NewCall("score_novelty", "", s, <<>>) : s \in SimVectors}
    \cup {NewCall("score_financial_viability", "", <<0, 0, 0>>, b) : b \in Budgets}
    \cup {NewCall("compute_weighted_score", t, s, b) :
            t \in AggTexts, s \in AggSimVectors, b \in Budgets}

Returns(fn) == call.fn = fn /\ call.pc = "called"

ReturnScore(val) ==
    /\ call' = [call EXCEPT !.pc = "returned", !.score = val]
    /\ UNCHANGED <<logged_in, username, role, proposals, request, screen>>

CallRelevance ==
    /\ Returns("score_relevance")
    /\ \E val \in score_relevance(call.text) : ReturnScore(val)

CallNovelty ==
    /\ Returns("score_novelty")
    /\ \E val \in score_novelty(call.sims) : ReturnScore(val)

CallTechnicalFeasibility ==
    /\ Returns("score_technical_feasibility")
    /\ \E val \in score_technical_feasibility(call.text) : ReturnScore(val)

CallFinancialViability ==
    /\ Returns("score_financial_viability")
    /\ LET fin == score_financial_viability(call.Amount)
       IN  call' = [call EXCEPT !.pc = "returned", !.score = fin[1], !.issues = fin[2]]
    /\ UNCHANGED <<logged_in, username, role, proposals, request, screen>>

CallImpactPotential ==
    /\ Returns("score_impact_potential")
    /\ \E val \in score_impact_potential(call.text) : ReturnScore(val)

CallInstitutionalCapability ==
    /\ Returns("score_institutional_capability")
    /\ \E val \in score_institutional_capability(call.text) : ReturnScore(val)

CallComplianceAndCompleteness ==
    /\ Returns("score_compliance_and_completeness")
    /\ \E val \in score_compliance_and_completeness(call.text) : ReturnScore(val)

CallComputeWeightedScore ==
    /\ Returns("compute_weighted_score")
    /\ \E scores \in compute_weighted_score(call.text, call.sims, call.Amount) :
         call' = [call EXCEPT !.pc = "returned", !.scores = scores,
                              !.issues = score_financial_viability(call.Amount)[2]]
    /\ UNCHANGED <<logged_in, username, role, proposals, request, screen>>

(***************************************************************************)
(* The session: users, uploaded files, the rendered page.                  *)
(***************************************************************************)
USERS ==
    ("admin" :> [password |-> "admin123", role |-> "admin"])
    @@ ("company1" :> [password |-> "comp123", role |-> "company"])
    @@ ("evaluator1" :> [password |-> "eval123", role |-> "evaluator"])

None == "None"

\* Mutant: any password of a known user is accepted
authenticate_any_password(u, password) ==
    IF u \in DOMAIN USERS THEN USERS[u].role ELSE None

authenticate(u, password) ==
    IF u \in DOMAIN USERS /\ USERS[u].password = password
    THEN USERS[u].role
    ELSE None

\* An uploaded PDF: fitz either opens it and yields its pages' text, or raises
NoPdf == [present |-> FALSE, readable |-> FALSE, pages |-> <<>>]

Pdf(readable, pages) == [present |-> TRUE, readable |-> readable, pages |-> pages]

RECURSIVE PagesText(_)
PagesText(pages) == IF pages = <<>> THEN "" ELSE Head(pages) \o PagesText(Tail(pages))

extract_pdf_text(pdf) == IF pdf.readable THEN PagesText(pdf.pages) ELSE ""

\* An uploaded CSV: pd.read_csv either raises or yields a table with its
\* columns, of which Amount (when present) is a sequence of numbers
NoCsv == [present |-> FALSE, parses |-> FALSE, columns |-> {}, Amount |-> <<>>]

Csv(parses, columns, Amount) ==
    [present |-> TRUE, parses |-> parses, columns |-> columns, Amount |-> Amount]

\* What the user did to trigger a run of the script
NewRequest(op, u, password, pdf_file, budget_file, sims) ==
    [op |-> op, username |-> u, password |-> password,
     pdf_file |-> pdf_file, budget_file |-> budget_file, sims |-> sims]

Click(op) == NewRequest(op, "", "", NoPdf, NoCsv, <<0, 0, 0>>)

\* What the run rendered
Page(page, message, user_props, alerts) ==
    [page |-> page, message |-> message, user_props |-> user_props, alerts |-> alerts]

\* [p for p in proposals if p["user"] == username]
UserProps(props, u) == LET Own(p) == p.user = u IN SelectSeq(props, Own)

\* [p for p in proposals if p["scores"]["Reasons"]]
Alerts(props) == LET Alerted(p) == p.scores.Reasons # <<>> IN SelectSeq(props, Alerted)

LoginPage(message) == Page("login", message, <<>>, <<>>)

\* The dashboard main() renders for a logged-in session when no button is pressed
Dashboard(r, u, props) ==
    IF r = "company" THEN Page("company", "", UserProps(props, u), <<>>)
    ELSE IF r = "admin" THEN Page("admin", "", <<>>, Alerts(props))
    ELSE IF r = "evaluator" THEN Page("evaluator", "Evaluator panel coming soon.", <<>>, <<>>)
    ELSE Page("sidebar", "", <<>>, <<>>)

Usernames == DOMAIN USERS \cup {"guest"}

Passwords == {USERS[u].password : u \in DOMAIN USERS} \cup {""}

PdfFiles ==
    {NoPdf, Pdf(FALSE, <<>>), Pdf(TRUE, <<>>), Pdf(TRUE, <<" ", "\n">>),
     Pdf(TRUE, <<Prefix(3)>>),
     Pdf(TRUE, <<Prefix(6), Phrases[7] \o Phrases[8] \o Phrases[9],
                 Phrases[10] \o Phrases[11] \o Phrases[12]>>)}

CsvFiles ==
    {NoCsv, Csv(FALSE, {}, <<>>), Csv(TRUE, {"Milestone", "Cost"}, <<>>)}
    \cup {Csv(TRUE, {"Milestone", "Amount"}, b) :
            b \in {<<>>, <<60, 40>>, <<1999960, 60>>}}

\* TF-IDF similarities of an uploaded text to the three benchmarks
UploadSims == {<<0, 20000, 5000>>}

(***************************************************************************)
(* The handlers.  rerun says whether st.experimental_rerun() restarts the  *)
(* script (it raises when the installed Streamlit no longer has it).       *)
(***************************************************************************)
login(u, password, rerun) ==
    /\ request' = NewRequest("login", u, password, NoPdf, NoCsv, <<0, 0, 0>>)
    /\ LET r == authenticate(u, password)
       IN  IF r \notin {None, ""}
           THEN /\ logged_in' = TRUE
                /\ username' = u
                /\ role' = r
                /\ screen' = IF rerun THEN Dashboard(r, u, proposals) ELSE LoginPage("")
           ELSE /\ UNCHANGED <<logged_in, username, role>>
                /\ screen' = LoginPage("Invalid username or password")
    /\ UNCHANGED <<proposals, call>>

\* Mutant: logging out also empties the proposal store
logout_clears_store(rerun) ==
    /\ request' = Click("logout")
    /\ logged_in' = FALSE
    /\ username' = ""
    /\ role' = ""
    /\ proposals' = <<>>
    /\ screen' = IF rerun THEN LoginPage("") ELSE Page("exception", "", <<>>, <<>>)
    /\ UNCHANGED call

logout(rerun) ==
    /\ request' = Click("logout")
    /\ logged_in' = FALSE
    /\ username' = ""
    /\ role' = ""
    /\ screen' = IF rerun THEN LoginPage("") ELSE Page("exception", "", <<>>, <<>>)
    /\ UNCHANGED <<proposals, call>>

\* Mutant: the Amount column is not checked
validation_error_no_column_check(pdf_file, budget_file) ==
    IF ~pdf_file.present \/ ~budget_file.present
    THEN "Please upload both PDF and Budget CSV"
    ELSE IF strip(extract_pdf_text(pdf_file)) = ""
    THEN "Could not extract text from PDF"
    ELSE IF ~budget_file.parses
    THEN "Error reading budget CSV"
    ELSE ""

\* The checks a submission passes before it is scored: the message of the
\* first one that fails, or "" when all pass
validation_error(pdf_file, budget_file) ==
    IF ~pdf_file.present \/ ~budget_file.present
    THEN "Please upload both PDF and Budget CSV"
    ELSE IF strip(extract_pdf_text(pdf_file)) = ""
    THEN "Could not extract text from PDF"
    ELSE IF ~budget_file.parses
    THEN "Error reading budget CSV"
    ELSE IF "Amount" \notin budget_file.columns
    THEN "Budget CSV must include 'Amount' column"
    ELSE ""

\* Mutant: every new proposal starts as "Submitted", whatever its score
company_dashboard_starts_submitted(pdf_file, budget_file, sims) ==
    /\ request' = NewRequest("submit", "", "", pdf_file, budget_file, sims)
    /\ IF validation_error(pdf_file, budget_file) # ""
       THEN /\ screen' = Page("company", validation_error(pdf_file, budget_file), <<>>, <<>>)
            /\ UNCHANGED <<logged_in, username, role, proposals, call>>
       ELSE LET text == extract_pdf_text(pdf_file)
            IN  \E scores \in compute_weighted_score(text, sims, budget_file.Amount) :
                  /\ proposals' = Append(proposals,
                       [id |-> Len(proposals) + 1, text |-> text, scores |-> scores,
                        user |-> username, status |-> "Submitted",
                        eval_comment |-> ""])
                  /\ screen' = Page("company",
                                    "Proposal submitted with status: " \o scores.Status,
                                    UserProps(proposals', username), <<>>)
                  /\ UNCHANGED <<logged_in, username, role, call>>

\* company_dashboard() with the Submit Proposal button pressed.  A failed
\* check returns before the list of proposals is rendered.
company_dashboard(pdf_file, budget_file, sims) ==
    /\ request' = NewRequest("submit", "", "", pdf_file, budget_file, sims)
    /\ IF validation_error(pdf_file, budget_file) # ""
       THEN /\ screen' = Page("company", validation_error(pdf_file, budget_file), <<>>, <<>>)
            /\ UNCHANGED <<logged_in, username, role, proposals, call>>
       ELSE LET text == extract_pdf_text(pdf_file)
            IN  \E scores \in compute_weighted_score(text, sims, budget_file.Amount) :
                  /\ proposals' = Append(proposals,
                       [id |-> Len(proposals) + 1, text |-> text, scores |-> scores,
                        user |-> username, status |-> scores.Status,
                        eval_comment |-> ""])
                  /\ screen' = Page("company",
                                    "Proposal submitted with status: " \o scores.Status,
                                    UserProps(proposals', username), <<>>)
                  /\ UNCHANGED <<logged_in, username, role, call>>

\* A dashboard rendered with no button pressed
view(op) ==
    /\ request' = Click(op)
    /\ screen' = Dashboard(role, username, proposals)
    /\ UNCHANGED <<logged_in, username, role, proposals, call>>

(***************************************************************************)
(* main(): one run of the script per user interaction.                     *)
(***************************************************************************)
Login ==
    /\ ~logged_in
    /\ \E u \in Usernames, password \in Passwords, rerun \in BOOLEAN :
         login(u, password, rerun)

Logout ==
    /\ logged_in
    /\ \E rerun \in BOOLEAN : logout(rerun)

\* Mutant: the submission form is offered to every logged-in role
Submit_any_role ==
    /\ logged_in
    /\ Len(proposals) < MaxProposals
    /\ \E pdf_file \in PdfFiles, budget_file \in CsvFiles, sims \in UploadSims :
         company_dashboard(pdf_file, budget_file, sims)

Submit ==
    /\ logged_in /\ role = "company"
    /\ Len(proposals) < MaxProposals
    /\ \E pdf_file \in PdfFiles, budget_file \in CsvFiles, sims \in UploadSims :
         company_dashboard(pdf_file, budget_file, sims)

CompanyView == logged_in /\ role = "company" /\ view("company_dashboard")

AdminView == logged_in /\ role = "admin" /\ view("admin_dashboard")

EvaluatorView == logged_in /\ role = "evaluator" /\ view("evaluator_dashboard")

Init ==
    /\ logged_in = FALSE
    /\ username = ""
    /\ role = ""
    /\ proposals = <<>>
    /\ request = Click("open")
    /\ screen = LoginPage("")
    /\ call = NoCall

Next == Login \/ Logout \/ Submit \/ CompanyView \/ AdminView \/ EvaluatorView

Spec == Init /\ [][Next]_vars

\* The scorers on their own, each called once on arguments drawn from the input sets
ScoreInit ==
    /\ logged_in = FALSE
    /\ username = ""
    /\ role = ""
    /\ proposals = <<>>
    /\ request = Click("open")
    /\ screen = LoginPage("")
    /\ call \in Calls

ScoreNext ==
    \/ CallRelevance
    \/ CallNovelty
    \/ CallTechnicalFeasibility
    \/ CallFinancialViability
    \/ CallImpactPotential
    \/ CallInstitutionalCapability
    \/ CallComplianceAndCompleteness
    \/ CallComputeWeightedScore

ScoreSpec == ScoreInit /\ [][ScoreNext]_vars

(***************************************************************************)
(* Properties of the scorers, checked under ScoreSpec.                     *)
(***************************************************************************)
Returned(fn) == call.fn = fn /\ call.pc = "returned"

Range(seq) == {seq[i] : i \in 1..Len(seq)}

\* The two financial rules, stated on the Amount column
CapExceeded(Amount) == SeqSum(Amount) > 2000000

FirstMilestoneTooLarge(Amount) ==
    /\ SeqSum(Amount) > 0
    /\ Amount # <<>>
    /\ 5 * Amount[1] > 2 * SeqSum(Amount)

RaisedFlags(Amount) ==
    {f \in {CapIssue} : CapExceeded(Amount)}
    \cup {f \in {MilestoneIssue} : FirstMilestoneTooLarge(Amount)}

\* C1: compute_weighted_score maps overall >= 70 to Accepted with no reasons,
\* 50 <= overall < 70 to Conditional Acceptance and overall < 50 to Rejected,
\* the last two with the financial issues as reasons when there are any and the
\* generic reason otherwise; 70.00 and 50.00 belong to the upper class.
C1_StatusFromOverall ==
    Returned("compute_weighted_score") =>
        LET overall == call.scores.OverallScore
            status == call.scores.Status
            reasons == call.scores.Reasons
        IN  /\ overall >= 7000 =>
                 status = "Accepted" /\ reasons = <<>>
            /\ (5000 <= overall /\ overall < 7000) =>
                 /\ status = "Conditional Acceptance (Revision Needed)"
                 /\ reasons = IF call.issues # <<>> THEN call.issues
                              ELSE <<"Requires revision">>
            /\ overall < 5000 =>
                 /\ status = "Rejected"
                 /\ reasons = IF call.issues # <<>> THEN call.issues
                              ELSE <<"Score below threshold">>

\* An overall score of exactly 70.00 was returned and is Accepted
C1_Witness ==
    /\ Returned("compute_weighted_score")
    /\ call.scores.OverallScore = 7000
    /\ call.scores.Status = "Accepted"

\* C2: score_financial_viability raises the cap flag exactly when the total is
\* above 2,000,000, the first-milestone flag exactly when the total is positive
\* and the first row is more than 40% of it, no flag for a total of 0, the cap
\* flag first, and scores 100 without flags and 50 with.
C2_FinancialFlags ==
    Returned("score_financial_viability") =>
        LET flags == Range(call.issues)
        IN  /\ (CapIssue \in flags) <=> CapExceeded(call.Amount)
            /\ (MilestoneIssue \in flags) <=> FirstMilestoneTooLarge(call.Amount)
            /\ flags \subseteq {CapIssue, MilestoneIssue}
            /\ SeqSum(call.Amount) = 0 => call.issues = <<>>
            /\ (CapExceeded(call.Amount) /\ FirstMilestoneTooLarge(call.Amount)) =>
                 call.issues = <<CapIssue, MilestoneIssue>>
            /\ Len(call.issues) = Cardinality(flags)
            /\ call.score = IF call.issues = <<>> THEN 10000 ELSE 5000

\* Both flags were raised, in order
C2_Witness ==
    /\ Returned("score_financial_viability")
    /\ call.issues = <<CapIssue, MilestoneIssue>>
    /\ call.score = 5000

KeywordsOf(fn) ==
    CASE fn = "score_relevance" -> relevance_keywords
      [] fn = "score_technical_feasibility" -> feasibility_keys
      [] fn = "score_impact_potential" -> impact_keys
      [] fn = "score_institutional_capability" -> institutional_keys
      [] fn = "score_compliance_and_completeness" -> compliance_keys

\* How many of the scorer's keywords occur in the lower-cased text
Found(fn, text) ==
    Cardinality({i \in 1..Len(KeywordsOf(fn)) : In(KeywordsOf(fn)[i], lower(text))})

\* 100 * m / n in hundredths, to the nearest hundredth
Percent(m, n) == (2 * 10000 * m + n) \div (2 * n)

MaxSim(sims) == CHOOSE m \in Range(sims) : \A x \in Range(sims) : x <= m

\* v is 100 x (1 - s) rounded to 2 decimals, for s in units of 1/100000
IsRoundedNovelty(v, s) == 10 * v - (100000 - s) \in -5..5

Submitted(req) == req.op = "submit"

\* Every character of the text is whitespace (so is the empty text)
IsBlank(text) == \A i \in 1..Len(text) : SubSeq(text, i, i) \in Whitespace

\* The text fitz extracts from an uploaded PDF
Extracted(pdf_file) ==
    IF pdf_file.readable THEN PagesText(pdf_file.pages) ELSE ""

\* The submission fails one of the four checks
FailsValidation(req) ==
    \/ ~req.pdf_file.present
    \/ ~req.budget_file.present
    \/ IsBlank(Extracted(req.pdf_file))
    \/ ~req.budget_file.parses
    \/ "Amount" \notin req.budget_file.columns

Last(seq) == seq[Len(seq)]

\* C5 as stated: after a valid submission whose budget raises a financial flag,
\* the proposal is stored and every raised flag is among its Reasons, whatever
\* the overall score.
C5_Original ==
    (/\ Submitted(request)
     /\ ~FailsValidation(request)
     /\ RaisedFlags(request.budget_file.Amount) # {}) =>
        /\ proposals # <<>>
        /\ RaisedFlags(request.budget_file.Amount)
             \subseteq Range(Last(proposals).scores.Reasons)

\* C5 amended: a valid submission whose budget raises a financial flag appends
\* one proposal; its Reasons are exactly the raised flags when its overall score
\* is below 70, and empty when its overall score is 70 or more.
C5_FlagsKeptBelowSeventy ==
    [][(/\ Submitted(request')
        /\ ~FailsValidation(request')
        /\ RaisedFlags(request'.budget_file.Amount) # {}) =>
           /\ Len(proposals') = Len(proposals) + 1
           /\ SubSeq(proposals', 1, Len(proposals)) = proposals
           /\ LET new == Last(proposals')
              IN  IF new.scores.OverallScore < 7000
                  THEN /\ Range(new.scores.Reasons) =
                            RaisedFlags(request'.budget_file.Amount)
                       /\ Len(new.scores.Reasons) =
                            Cardinality(RaisedFlags(request'.budget_file.Amount))
                  ELSE new.scores.Reasons = <<>>]_vars

\* A rejected proposal was stored with both flags as its reasons
C5_Witness ==
    /\ Submitted(request)
    /\ ~FailsValidation(request)
    /\ RaisedFlags(request.budget_file.Amount) = {CapIssue, MilestoneIssue}
    /\ proposals # <<>>
    /\ Last(proposals).status = "Rejected"
    /\ Last(proposals).scores.Reasons = <<CapIssue, MilestoneIssue>>

\* C6: a submission that fails validation (a file missing, blank extracted
\* text, an unparsable budget file, no Amount column) leaves the proposal store
\* and the login state as they were.
C6_FailedSubmitChangesNothing ==
    [][(Submitted(request') /\ FailsValidation(request')) =>
           /\ proposals' = proposals
           /\ logged_in' = logged_in
           /\ username' = username
           /\ role' = role]_vars

\* A budget without an Amount column was refused with one proposal already stored
C6_Witness ==
    /\ Submitted(request)
    /\ request.pdf_file.present /\ ~IsBlank(Extracted(request.pdf_file))
    /\ request.budget_file.present /\ request.budget_file.parses
    /\ "Amount" \notin request.budget_file.columns
    /\ screen.message = "Budget CSV must include 'Amount' column"
    /\ Len(proposals) = 1
    /\ logged_in /\ username = "company1"

\* C7: the record at position i has id i, and every step keeps the records
\* already stored, in their places: the store only grows at its end, also across
\* logout and a later login.
C7_AppendOnlyIds ==
    /\ [](\A i \in 1..Len(proposals) : proposals[i].id = i)
    /\ [][/\ Len(proposals') >= Len(proposals)
          /\ \A i \in 1..Len(proposals) :
               /\ proposals'[i].id = proposals[i].id
               /\ proposals'[i].text = proposals[i].text
               /\ proposals'[i].user = proposals[i].user
               /\ proposals'[i].scores = proposals[i].scores]_vars

\* Two proposals are stored and another user has logged in since
C7_Witness ==
    /\ Len(proposals) = 2
    /\ proposals[1].id = 1 /\ proposals[2].id = 2
    /\ logged_in /\ username = "admin"

\* C8: a stored proposal's status is the one the aggregator computed for its
\* submission and its comment is empty, and no step changes the status or the
\* comment of a stored proposal (the code has no evaluator action).
C8_StatusFixedAtCreation ==
    /\ [](\A i \in 1..Len(proposals) :
            /\ proposals[i].status = proposals[i].scores.Status
            /\ proposals[i].eval_comment = "")
    /\ [][/\ \A i \in 1..Len(proposals) :
               i <= Len(proposals') =>
                 /\ proposals'[i].status = proposals[i].status
                 /\ proposals'[i].eval_comment = proposals[i].eval_comment
          /\ Len(proposals') > Len(proposals) =>
               /\ Submitted(request')
               /\ Last(proposals').scores \in
                    compute_weighted_score(Extracted(request'.pdf_file), request'.sims,
                                           request'.budget_file.Amount)]_vars

\* The evaluator looks at the panel while an Accepted and a Rejected proposal
\* are stored
C8_Witness ==
    /\ logged_in /\ role = "evaluator"
    /\ request.op = "evaluator_dashboard"
    /\ \E i, j \in 1..Len(proposals) :
         proposals[i].status = "Accepted" /\ proposals[j].status = "Rejected"

RightCredentials(req) ==
    /\ req.username \in DOMAIN USERS
    /\ USERS[req.username].password = req.password

\* C9: the session is either logged out with empty username and role, or logged
\* in as a user of the table with that user's role; a login attempt with an
\* unknown username or a wrong password leaves the session logged out and empty,
\* and one with the right password sets logged_in, username and role together.
C9_NoPartialSession ==
    /\ [](\/ ~logged_in /\ username = "" /\ role = ""
          \/ /\ logged_in
             /\ username \in DOMAIN USERS
             /\ role = USERS[username].role)
    /\ [][request'.op = "login" =>
            IF RightCredentials(request')
            THEN /\ logged_in'
                 /\ username' = request'.username
                 /\ role' = USERS[request'.username].role
            ELSE ~logged_in' /\ username' = "" /\ role' = ""]_vars

\* A known user gave another user's password and was refused
C9_Witness ==
    /\ request.op = "login"
    /\ request.username = "admin" /\ request.password = "comp123"
    /\ ~logged_in /\ username = "" /\ role = ""
    /\ screen.message = "Invalid username or password"

\* C10: every stored proposal belongs to a user whose role is company; a step
\* that adds a proposal is taken by a logged-in company session and records its
\* username; no step of an admin or evaluator session changes the store; and
\* the company view, whenever it renders its list (on login, on a view, after a
\* stored submission), lists exactly the stored proposals of the current user,
\* in order.
C10_OnlyCompanySubmits ==
    /\ [](\A i \in 1..Len(proposals) :
            /\ proposals[i].user \in DOMAIN USERS
            /\ USERS[proposals[i].user].role = "company")
    /\ []((screen.page = "company" /\ ~(Submitted(request) /\ FailsValidation(request))) =>
            /\ Len(screen.user_props) =
                 Cardinality({i \in 1..Len(proposals) : proposals[i].user = username})
            /\ \A k \in 1..Len(screen.user_props) :
                 /\ screen.user_props[k].user = username
                 /\ screen.user_props[k] \in Range(proposals)
                 /\ k > 1 => screen.user_props[k - 1].id < screen.user_props[k].id)
    /\ [][/\ Len(proposals') > Len(proposals) =>
               /\ logged_in /\ role = "company"
               /\ Last(proposals').user = username
               /\ username' = username
          /\ (logged_in /\ role \in {"admin", "evaluator"}) => proposals' = proposals]_vars

\* The company user looks at its list of two proposals
C10_Witness ==
    /\ logged_in /\ role = "company"
    /\ request.op = "company_dashboard"
    /\ Len(screen.user_props) = 2
    /\ screen.user_props = proposals

====
